---- MODULE Spec2Model ----
(***************************************************************************)
(* Model of the service storage rule of the WTSS QGIS plugin               *)
(* (class Services of wtss_plugin/controller/wtss_qgis_controller.py).     *)
(*                                                                         *)
(* The storage is one JSON file holding {"services": [{id, name, host}]}.  *)
(* The file is modelled by a record [exists, services]; a remote host is   *)
(* either reachable (WTSS(host).coverages answers) or not.                 *)
(* A value of type "Service or None" is a sequence of at most one record:  *)
(* <<>> is None.                                                           *)
(***************************************************************************)
EXTENDS Integers, Sequences, FiniteSets, TLC

\* ---------------------------------------------------------------- bounds
MaxId == 3          \* cap on the id an operation may hand out

\* ------------------------------------------------------------ input sets
WTSS_HOST == "wtss_host"
DefaultName == "Brazil Data Cube"
Names == {DefaultName, "A", "B"}
Hosts == {WTSS_HOST, "h1"}
Products == {"p1"}
ProductArgs == Products \cup {"unknown"}
Responses == {"refused", "200", "404"}

VARIABLES
    file,        \* the storage file: [exists, services]
    net,         \* net[h] = TRUE iff WTSS(h).coverages answers
    op,          \* the last operation called ("env" after an environment step)
    argName,     \* its service name argument ("" when it has none)
    argHost,     \* its host argument ("" when it has none)
    pre,         \* the storage file when the operation was called
    ret,         \* returned Service (<<rec>>) or None (<<>>)
    names,       \* list returned by getServiceNames
    outcome,     \* how a query ended: a returned value or the exception raised
    contacts     \* remote contacts made by the last operation

vars == <<file, net, op, argName, argHost, pre, ret, names, outcome, contacts>>

\* ---------------------------------------------------------- data classes
Service(index, name, host) == [id |-> index, name |-> name, host |-> host]

ServiceList(services) == [exists |-> TRUE, services |-> services]

NoFile == [exists |-> FALSE, services |-> <<>>]

\* ------------------------------------------------------- pure operations
testServiceConnection(n, host) == n[host]

RECURSIVE FindLoop(_, _, _, _)
FindLoop(services, service_name, i, service) ==
    IF i > Len(services) THEN service
    ELSE FindLoop(services, service_name, i + 1,
                  IF services[i].name = service_name
                  THEN <<services[i]>> ELSE service)

findServiceByName(f, service_name) ==
    IF ~f.exists THEN <<>>
    ELSE FindLoop(f.services, service_name, 1, <<>>)

RECURSIVE NamesLoop(_, _, _, _)
NamesLoop(services, n, i, service_names) ==
    IF i > Len(services) THEN service_names
    ELSE NamesLoop(services, n, i + 1,
                   IF testServiceConnection(n, services[i].host)
                   THEN Append(service_names, services[i].name)
                   ELSE service_names)

RECURSIVE AllNamesLoop(_, _, _, _)
AllNamesLoop(services, n, i, service_names) ==
    IF i > Len(services) THEN service_names
    ELSE AllNamesLoop(services, n, i + 1, Append(service_names, services[i].name))

getServiceNamesUnfiltered(f, n) ==
    IF ~f.exists THEN <<>>
    ELSE AllNamesLoop(f.services, n, 1, <<>>)

getServiceNames(f, n) ==
    IF ~f.exists THEN <<>>
    ELSE NamesLoop(f.services, n, 1, <<>>)

\* list.index(x): position of the first element equal to x
RECURSIVE IndexOf(_, _, _)
IndexOf(services, x, i) ==
    IF services[i] = x THEN i ELSE IndexOf(services, x, i + 1)

\* list.pop(i)
Pop(services, i) ==
    SubSeq(services, 1, i - 1) \o SubSeq(services, i + 1, Len(services))

addServiceAnyHost(f, n, name, host) ==
    LET server_to_save == findServiceByName(f, name)
    IN  IF server_to_save = <<>>
        THEN LET empty == ~f.exists \/ Len(f.services) = 0
                 index == IF empty THEN 0
                          ELSE f.services[Len(f.services)].id + 1
                 base  == IF empty THEN <<>> ELSE f.services
                 rec   == Service(index, name, host)
             IN  [file |-> ServiceList(Append(base, rec)), ret |-> <<rec>>]
        ELSE [file |-> f, ret |-> server_to_save]

addService(f, n, name, host) ==
    LET server_to_save == findServiceByName(f, name)
    IN  IF testServiceConnection(n, host) /\ server_to_save = <<>>
        THEN LET empty == ~f.exists \/ Len(f.services) = 0
                 index == IF empty THEN 0
                          ELSE f.services[Len(f.services)].id + 1
                 base  == IF empty THEN <<>> ELSE f.services
                 rec   == Service(index, name, host)
             IN  [file |-> ServiceList(Append(base, rec)), ret |-> <<rec>>]
        ELSE [file |-> f, ret |-> server_to_save]

deleteServiceLast(f, server_name) ==
    LET server_to_delete == findServiceByName(f, server_name)
    IN  IF server_to_delete # <<>>
        THEN [file |-> ServiceList(Pop(f.services, Len(f.services))),
              ret  |-> server_to_delete]
        ELSE [file |-> f, ret |-> <<>>]

deleteService(f, server_name) ==
    LET server_to_delete == findServiceByName(f, server_name)
    IN  IF server_to_delete # <<>>
        THEN [file |-> ServiceList(Pop(f.services,
                           IndexOf(f.services, server_to_delete[1], 1))),
              ret  |-> server_to_delete]
        ELSE [file |-> f, ret |-> <<>>]

editService(f, n, server_name, server_host) ==
    LET server_to_edit == findServiceByName(f, server_name)
        f1 == IF server_to_edit # <<>>
              THEN deleteService(f, server_name).file ELSE f
    IN  addService(f1, n, server_name, server_host)

resetAvailableServices(f, n) ==
    LET f1 == addService(f, n, DefaultName, WTSS_HOST).file
    IN  IF getServiceNames(f1, n) = <<>> THEN ServiceList(<<>>) ELSE f1

\* loadServices: every stored service whose host fails the connection test
\* is deleted; the loop runs over the list read before the first deletion.
RECURSIVE LoadLoop(_, _, _, _)
LoadLoop(services, n, i, f) ==
    IF i > Len(services) THEN f
    ELSE LoadLoop(services, n, i + 1,
                  IF testServiceConnection(n, services[i].host) THEN f
                  ELSE deleteService(f, services[i].name).file)

loadServices(f, n) ==
    IF ~f.exists THEN f ELSE LoadLoop(f.services, n, 1, f)

\* Services.__init__: an existing file is kept, a missing one is reset
construct(f, n) == IF f.exists THEN f ELSE resetAvailableServices(f, n)

\* ------------------------------------------------------ remote queries
\* A query ends with [outcome, contacts]: outcome is the value returned
\* ("result", "[]", "{}", "None") or the exception that leaves the method;
\* contacts counts the requests sent to the remote host.
End(out, c) == [outcome |-> out, contacts |-> c]

\* WTSS(host)[product]: the describe-coverage request fails for a product
\* the service does not publish
describeCoverage(product) == product \in Products

listProductsOneRequest(f, n, service_name) ==
    LET found == findServiceByName(f, service_name)
    IN  IF found = <<>> THEN End("AttributeError", 0)
        ELSE IF testServiceConnection(n, found[1].host)
             THEN End("result", 1)
             ELSE End("[]", 1)

listProducts(f, n, service_name) ==
    LET found == findServiceByName(f, service_name)
    IN  IF found = <<>> THEN End("AttributeError", 0)
        ELSE IF testServiceConnection(n, found[1].host)
             THEN End("result", 2)
             ELSE End("[]", 1)

productDescription(f, n, service_name, product) ==
    LET found == findServiceByName(f, service_name)
    IN  IF found = <<>> THEN End("AttributeError", 0)
        ELSE IF testServiceConnection(n, found[1].host)
             THEN IF describeCoverage(product)
                  THEN End("result", 2)
                  ELSE End("Exception", 2)
             ELSE End("{}", 1)

\* valid: the time series request (bands, point, dates) is accepted;
\* resp:  what the direct HTTP GET meets when the connection test failed;
\* dated: the timeline of a 200 response holds at least one date.
productTimeSeries(f, n, service_name, product, valid, resp, dated) ==
    LET found == findServiceByName(f, service_name)
    IN  IF found = <<>> THEN End("AttributeError", 0)
        ELSE IF testServiceConnection(n, found[1].host)
             THEN IF ~describeCoverage(product) THEN End("None", 2)
                  ELSE IF valid THEN End("result", 3)
                  ELSE End("None", 3)
             ELSE IF resp = "refused" THEN End("ConnectionError", 2)
                  ELSE IF resp = "200"
                       THEN IF dated THEN End("AttributeError", 2)
                            ELSE End("result", 2)
                       ELSE End("None", 2)

\* ------------------------------------------------------------ the bound
WithinBound(f) == \A i \in 1..Len(f.services) : f.services[i].id <= MaxId

\* --------------------------------------------------------------- actions
Record(o, name, host, r, ns, out, c) ==
    /\ op' = o
    /\ argName' = name
    /\ argHost' = host
    /\ pre' = file
    /\ ret' = r
    /\ names' = ns
    /\ outcome' = out
    /\ contacts' = c

Init ==
    /\ net \in [Hosts -> BOOLEAN]
    /\ file = construct(NoFile, net)
    /\ op = "init"
    /\ argName = ""
    /\ argHost = ""
    /\ pre = NoFile
    /\ ret = <<>>
    /\ names = <<>>
    /\ outcome = ""
    /\ contacts = 0

AddService ==
    \E name \in Names, host \in Hosts :
        LET r == addService(file, net, name, host)
        IN  /\ WithinBound(r.file)
            /\ file' = r.file
            /\ Record("addService", name, host, r.ret, <<>>, "", 0)
            /\ UNCHANGED net

DeleteService ==
    \E name \in Names :
        LET r == deleteService(file, name)
        IN  /\ file' = r.file
            /\ Record("deleteService", name, "", r.ret, <<>>, "", 0)
            /\ UNCHANGED net

EditService ==
    \E name \in Names, host \in Hosts :
        LET r == editService(file, net, name, host)
        IN  /\ WithinBound(r.file)
            /\ file' = r.file
            /\ Record("editService", name, host, r.ret, <<>>, "", 0)
            /\ UNCHANGED net

ResetAvailableServices ==
    LET f == resetAvailableServices(file, net)
    IN  /\ WithinBound(f)
        /\ file' = f
        /\ Record("resetAvailableServices", "", "", <<>>, <<>>, "", 0)
        /\ UNCHANGED net

GetServiceNames ==
    /\ Record("getServiceNames", "", "", <<>>, getServiceNames(file, net), "", 0)
    /\ UNCHANGED <<file, net>>

LoadServices ==
    /\ file' = loadServices(file, net)
    /\ Record("loadServices", "", "", <<>>, <<>>, "", 0)
    /\ UNCHANGED net

Construct ==
    LET f == construct(file, net)
    IN  /\ WithinBound(f)
        /\ file' = f
        /\ Record("init", "", "", <<>>, <<>>, "", 0)
        /\ UNCHANGED net

ListProducts ==
    \E name \in Names :
        LET r == listProducts(file, net, name)
        IN  /\ Record("listProducts", name, "", <<>>, <<>>, r.outcome, r.contacts)
            /\ UNCHANGED <<file, net>>

ProductDescription ==
    \E name \in Names, product \in ProductArgs :
        LET r == productDescription(file, net, name, product)
        IN  /\ Record("productDescription", name, "", <<>>, <<>>, r.outcome, r.contacts)
            /\ UNCHANGED <<file, net>>

ProductTimeSeries ==
    \E name \in Names, product \in ProductArgs, valid \in BOOLEAN,
       resp \in Responses, dated \in BOOLEAN :
        LET r == productTimeSeries(file, net, name, product, valid, resp, dated)
        IN  /\ Record("productTimeSeries", name, "", <<>>, <<>>, r.outcome, r.contacts)
            /\ UNCHANGED <<file, net>>

\* environment: a host comes up or goes down
SetReachable ==
    \E h \in Hosts :
        /\ net' = [net EXCEPT ![h] = ~net[h]]
        /\ Record("env", "", "", <<>>, <<>>, "", 0)
        /\ UNCHANGED file

\* environment: the storage file is removed from the plugin directory
RemoveStorageFile ==
    /\ file.exists
    /\ file' = NoFile
    /\ Record("env", "", "", <<>>, <<>>, "", 0)
    /\ UNCHANGED net

Next ==
    \/ AddService
    \/ DeleteService
    \/ EditService
    \/ ResetAvailableServices
    \/ GetServiceNames
    \/ LoadServices
    \/ ListProducts
    \/ ProductDescription
    \/ ProductTimeSeries
    \/ Construct
    \/ SetReachable
    \/ RemoveStorageFile

Spec == Init /\ [][Next]_vars

\* ---------------------------------------------------------------- claims
Registered(f, name) == \E i \in 1..Len(f.services) : f.services[i].name = name

NameList(services) == [i \in 1..Len(services) |-> services[i].name]

QueryOps == {"listProducts", "productDescription", "productTimeSeries"}

\* C1: every query (listProducts, productDescription, productTimeSeries), for
\* a registered or an unregistered name and any reachability, ends by
\* returning the remote result or its empty value ([] / {} / None); no
\* exception leaves the method.
C1_QueriesNeverRaise ==
    /\ op = "listProducts" => outcome \in {"result", "[]"}
    /\ op = "productDescription" => outcome \in {"result", "{}"}
    /\ op = "productTimeSeries" => outcome \in {"result", "None"}

\* C2: addService(name, host) appends a record (name, host) at the end of the
\* stored list iff host passes the connection test and the name is not yet
\* stored; otherwise the storage is left as it was; on success the earlier
\* records keep their id, name, host and order.
C2_AddRegistersOnlyActive ==
    op = "addService" =>
        IF net[argHost] /\ ~Registered(pre, argName)
        THEN /\ file.exists
             /\ Len(file.services) = Len(pre.services) + 1
             /\ SubSeq(file.services, 1, Len(pre.services)) = pre.services
             /\ file.services[Len(file.services)].name = argName
             /\ file.services[Len(file.services)].host = argHost
        ELSE file = pre

C2_Witness ==
    /\ op = "addService"
    /\ net[argHost]
    /\ ~Registered(pre, argName)
    /\ Len(pre.services) = 2
    /\ Len(file.services) = 3

\* C3: editService(name, host) on a registered name leaves exactly one service
\* with that name, whose host is the host argument, and leaves every other
\* stored service unchanged.
C3_EditKeepsService ==
    (op = "editService" /\ Registered(pre, argName)) =>
        /\ Cardinality({i \in 1..Len(file.services) :
                           file.services[i].name = argName}) = 1
        /\ \A i \in 1..Len(file.services) :
               file.services[i].name = argName => file.services[i].host = argHost
        /\ SelectSeq(file.services, LAMBDA s : s.name # argName)
               = SelectSeq(pre.services, LAMBDA s : s.name # argName)

\* C4: deleteService(name) removes exactly the stored record with that name,
\* returns it, findServiceByName(name) is None afterwards and the other records
\* keep id, name, host and relative order; with no such record (or no storage
\* file) the storage is unchanged and None is returned.
C4_DeleteRemovesExactlyOne ==
    op = "deleteService" =>
        IF Registered(pre, argName)
        THEN /\ file.exists
             /\ \E i \in 1..Len(pre.services) :
                    /\ pre.services[i].name = argName
                    /\ ret = <<pre.services[i]>>
                    /\ file.services = SubSeq(pre.services, 1, i - 1)
                                       \o SubSeq(pre.services, i + 1, Len(pre.services))
             /\ findServiceByName(file, argName) = <<>>
        ELSE file = pre /\ ret = <<>>

C4_Witness ==
    /\ op = "deleteService"
    /\ Len(pre.services) = 3
    /\ pre.services[2].name = argName
    /\ Len(file.services) = 2

C6_ResetRestartsList ==
    op = "resetAvailableServices" =>
        /\ file.exists
        /\ IF net[WTSS_HOST]
           THEN /\ Len(file.services) = 1
                /\ file.services[1].name = DefaultName
                /\ file.services[1].host = WTSS_HOST
           ELSE file.services = <<>>

\* C7 (as claimed): a query for a registered service makes exactly one remote
\* contact on every path.
C7_SingleRequest ==
    (op \in QueryOps /\ Registered(pre, argName)) => contacts = 1

\* C7 (amended): a query for a registered service makes one remote contact
\* only when listProducts or productDescription fails the connection test;
\* listProducts and productDescription make two when the test succeeds (the
\* test, then the query); productTimeSeries makes two when the test fails (the
\* test, then the direct HTTP GET) and two or three when it succeeds (the
\* test, the coverage description and, if that succeeded, the time series).
C7_RequestsPerCall ==
    (op \in QueryOps /\ Registered(pre, argName)) =>
        LET up == net[findServiceByName(pre, argName)[1].host]
        IN  /\ (op # "productTimeSeries" /\ ~up) => contacts = 1
            /\ (op # "productTimeSeries" /\ up) => contacts = 2
            /\ (op = "productTimeSeries" /\ ~up) => contacts = 2
            /\ (op = "productTimeSeries" /\ up) => contacts \in {2, 3}

C7_Witness ==
    /\ op = "listProducts"
    /\ Registered(pre, argName)
    /\ outcome = "result"
    /\ contacts = 2

====
